---- MODULE Spec2Model ----
(***************************************************************************)
(* A model of the moderation bot of tgbot_delete_noncomment.               *)
(*                                                                         *)
(*   Part I   WarningManager (src/warning_manager.py) over the store of    *)
(*            src/db.py: send_warning calls running as asyncio tasks that  *)
(*            interleave at their awaits.  Specification: Spec.            *)
(*   Part II  MessageAnalyzer (src/analyzer.py, and is_channel_post of     *)
(*            src/bot.py): the classifier applied to bounded message       *)
(*            graphs.  Specification: SpecAnalyzer.                        *)
(*   Part III The read-only operations of WarningManager (can_warn,        *)
(*            get_time_until_next_warning, format_stats) and _cmd_warnings *)
(*            of src/bot.py, applied to bounded stores, caches and clocks. *)
(*            Specification: SpecStats.                                    *)
(*   Part IV  The program of src/bot.py: main, BotConfig.from_env and      *)
(*            DiscussionBot handling group messages and deleting them.     *)
(*            Specification: SpecBot.                                      *)
(***************************************************************************)
EXTENDS Integers, Sequences, FiniteSets

VARIABLES
    \* ---- Part I: WarningManager ----
    clock,      \* int(datetime.now(timezone.utc).timestamp())
    store,      \* table warnings of db.py: user_id -> last_warning_ts (0: no row)
    cache,      \* WarningManager._cache: user_id -> timestamp (0: no key)
    pc,         \* per task: where its send_warning coroutine is suspended
    user,       \* per task: message.from_user (NoUser: from_user is None)
    data,       \* per task: the rows get_all_warnings has read, not yet assigned
    asked,      \* per task: the local `now` of can_warn
    seen,       \* per task, history: the last delivery to its user before can_warn
    now,        \* per task: the local `now` of record_warning
    sent,       \* per task: sent.message_id (0: nothing sent)
    delivered,  \* the transport: per user, when bot.send_message delivered a warning
    calls,      \* history: user and outcome of the send_warning calls that returned
    last,       \* history: the send_warning call that returned last, in full
    failed,     \* history: a send, a store write or a store read has failed
    overlapped, \* history: a call has started while another was running
    \* ---- Part II: MessageAnalyzer ----
    msgs,       \* the message graph: node 1 is the message handed to the analyzer
    max_chain_depth, \* settings.max_chain_depth
    a_pc,       \* "idle", "walk", "bot_walk" (inside _check_reply_chain) or "done"
    a_op,       \* the operation that ran
    a_cur,      \* _check_reply_chain's `message` (a node)
    a_depth,    \* _check_reply_chain's `depth`
    a_seen,     \* history: how many ancestors the walk has inspected
    a_result,   \* what the operation returned: "true", "false" or "raise"
    \* ---- Part III: the read-only operations ----
    s_pc,       \* "idle", "loading" (inside get_all_warnings) or "done"
    s_op,       \* the operation called
    s_user,     \* its user_id argument (NoUser: it takes none)
    s_out,      \* what it returned
    s_before,   \* history: the cache and the store when it was called
    s_load,     \* history: its snapshot load: "no", "read" or "failed"
    \* ---- Part IV: src/bot.py ----
    b_clock,    \* datetime.now(timezone.utc), in ticks (TicksPerSecond a second)
    last_warning, \* bot.py's WarningManager.last_warning: user_id -> tick (0: no key)
    env,        \* os.environ after load_dotenv, the required variables
    boot,       \* where main is: "start", "configured", "polling", "exited"
    exit_status, \* the argument of sys.exit (0: not called)
    admin_cache, \* DiscussionBot._admin_cache
    admin_cache_time, \* DiscussionBot._admin_cache_time (0: None)
    h_pc,       \* per group message: where its _handle_group_message is suspended
    h_msg,      \* per group message: the fields of the message the handler reads
    h_warn,     \* per group message: warning_msg_id (0: None)
    h_now,      \* per group message: the local `now` of _get_admin_user_ids_cached
    d_pc,       \* per group message: where its _schedule_deletion task is
    d_ids,      \* per group message: the task's message_ids
    d_due,      \* per group message: when the task's asyncio.sleep ends
    d_i,        \* per group message: how many of message_ids the loop has taken
    warnings,   \* the transport, history: per delivered warning, the message it replies to
    send_attempts, \* history: per group message, the send_message calls of send_warning
    notified,   \* history: per group message, the send_message calls of the notifier
    del_attempts, \* history: per message id, the delete_message calls
    deleted     \* the transport: the message ids that were deleted

wmVars == <<clock, store, cache, pc, user, data, asked, seen, now, sent, delivered, calls,
           last, failed, overlapped>>
anVars == <<msgs, max_chain_depth, a_pc, a_op, a_cur, a_depth, a_seen, a_result>>
stVars == <<s_pc, s_op, s_user, s_out, s_before, s_load>>
botVars == <<b_clock, last_warning, env, boot, exit_status, admin_cache, admin_cache_time,
            h_pc, h_msg, h_warn, h_now, d_pc, d_ids, d_due, d_i, warnings, send_attempts,
            notified, del_attempts, deleted>>
vars == <<wmVars, anVars, stVars, botVars>>

(***************************************************************************)
(* Bounds of the model.                                                    *)
(***************************************************************************)
NumUsers == 2
NumTasks == 2
MaxCalls == 3
MaxTime == 3

\* WarningManager(cooldown_seconds=2, ...) as the repository's test builds it.
cooldown_seconds == 2

\* The longest reply chain and the largest settings.max_chain_depth tried.
MaxNodes == 4
MaxDepth == 2

Users == 1..NumUsers
Tasks == 1..NumTasks
NoUser == 0
Absent == 0

(***************************************************************************)
(* Part I.  WarningManager.                                                *)
(***************************************************************************)
EmptyTable == [u \in Users |-> Absent]

\* `not self._cache`: the dict has no key.
cache_is_empty(c) == \A u \in Users : c[u] = Absent

\* can_warn with the window one second too long.
can_warn_strict(ts, t_now) ==
    IF ts = Absent THEN TRUE ELSE (t_now - ts) > cooldown_seconds

\* can_warn, after the cache check: ts = self._cache.get(user_id).
can_warn(ts, t_now) ==
    IF ts = Absent THEN TRUE ELSE (t_now - ts) >= cooldown_seconds

\* get_time_until_next_warning: the remaining seconds, 0 for None.
get_time_until_next_warning(ts, t_now) ==
    IF ts = Absent THEN 0
    ELSE LET remaining == cooldown_seconds - (t_now - ts)
         IN  IF remaining > 0 THEN remaining ELSE 0

InFlight == {t \in Tasks : pc[t] # "idle"}

\* When the last warning before now reached u (Absent: never).
LastDelivery(u) ==
    IF delivered[u] = <<>> THEN Absent ELSE delivered[u][Len(delivered[u])]

RECURSIVE NumDelivered(_)
NumDelivered(n) == IF n = 0 THEN 0 ELSE Len(delivered[n]) + NumDelivered(n - 1)

\* A call that has returned: its user, the `now` of its can_warn, what became
\* of it, what it returned (0: None), the timestamp it recorded, the last
\* delivery to the user before its can_warn, and the store's and the cache's
\* entry of the user as it returns.
Returned(u, t_at, outcome, ret, ts, prev, st, mi) ==
    [user |-> u, at |-> t_at, outcome |-> outcome, ret |-> ret, ts |-> ts,
     prev |-> prev, st |-> st, mi |-> mi]

NoCall == Returned(NoUser, 0, "none", 0, 0, 0, 0, 0)

\* The coroutine of task t returns: its locals go, the history keeps the call.
Return(t, r) ==
    /\ pc' = [pc EXCEPT ![t] = "idle"]
    /\ user' = [user EXCEPT ![t] = NoUser]
    /\ data' = [data EXCEPT ![t] = EmptyTable]
    /\ asked' = [asked EXCEPT ![t] = 0]
    /\ seen' = [seen EXCEPT ![t] = 0]
    /\ now' = [now EXCEPT ![t] = 0]
    /\ sent' = [sent EXCEPT ![t] = 0]
    /\ last' = r
    /\ calls' = Append(calls, [user |-> r.user, outcome |-> r.outcome])

\* send_warning from `ts = self._cache.get(user_id)` of can_warn up to its
\* `await bot.send_message`: c is the cache can_warn reads.
Decide(t, u, c) ==
    IF can_warn(c[u], clock)
    THEN /\ pc' = [pc EXCEPT ![t] = "sending"]
         /\ user' = [user EXCEPT ![t] = u]
         /\ asked' = [asked EXCEPT ![t] = clock]
         /\ seen' = [seen EXCEPT ![t] = LastDelivery(u)]
         /\ data' = [data EXCEPT ![t] = EmptyTable]
         /\ UNCHANGED <<now, sent, calls, last>>
    ELSE Return(t, Returned(u, clock, "suppressed", 0, 0, LastDelivery(u),
                            store[u], c[u]))

\* send_warning with the cache check moved before the sender check.
send_warning_sender_check_last(t, u) ==
    /\ UNCHANGED <<anVars, stVars, botVars>>
    /\ pc[t] = "idle"
    /\ \A t2 \in Tasks : pc[t2] = "idle" => t <= t2
    /\ Len(calls) + Cardinality(InFlight) < MaxCalls
    /\ overlapped' = (overlapped \/ InFlight # {})
    /\ UNCHANGED <<clock, store, delivered, failed>>
    /\ IF u = NoUser
       THEN /\ cache' = IF cache_is_empty(cache) THEN store ELSE cache
            /\ Return(t, Returned(NoUser, clock, "skipped", 0, 0, 0, 0, 0))
       ELSE /\ cache' = cache
            /\ IF cache_is_empty(cache)
               THEN /\ pc' = [pc EXCEPT ![t] = "loading"]
                    /\ user' = [user EXCEPT ![t] = u]
                    /\ UNCHANGED <<data, asked, seen, now, sent, calls, last>>
               ELSE Decide(t, u, cache)

\* send_warning is called for a message of u: up to its first await.
send_warning(t, u) ==
    /\ UNCHANGED <<anVars, stVars, botVars>>
    /\ pc[t] = "idle"
    /\ \A t2 \in Tasks : pc[t2] = "idle" => t <= t2
    /\ Len(calls) + Cardinality(InFlight) < MaxCalls
    /\ overlapped' = (overlapped \/ InFlight # {})
    /\ UNCHANGED <<clock, store, cache, delivered, failed>>
    /\ IF u = NoUser
       THEN Return(t, Returned(NoUser, clock, "skipped", 0, 0, 0, 0, 0))
       ELSE IF cache_is_empty(cache)
            THEN /\ pc' = [pc EXCEPT ![t] = "loading"]
                 /\ user' = [user EXCEPT ![t] = u]
                 /\ UNCHANGED <<data, asked, seen, now, sent, calls, last>>
            ELSE Decide(t, u, cache)

\* get_all_warnings reads the table.
get_all_warnings(t) ==
    /\ UNCHANGED <<anVars, stVars, botVars>>
    /\ pc[t] = "loading"
    /\ pc' = [pc EXCEPT ![t] = "loaded"]
    /\ data' = [data EXCEPT ![t] = store]
    /\ UNCHANGED <<clock, store, cache, user, asked, seen, now, sent, delivered,
                   calls, last, failed, overlapped>>

\* _load_cache resumes with the rows: self._cache = data; can_warn goes on.
load_cache(t) ==
    /\ UNCHANGED <<anVars, stVars, botVars>>
    /\ pc[t] = "loaded"
    /\ cache' = data[t]
    /\ Decide(t, user[t], data[t])
    /\ UNCHANGED <<clock, store, delivered, failed, overlapped>>

\* get_all_warnings raises: _load_cache logs it, the cache stays; can_warn goes on.
load_cache_fails(t) ==
    /\ UNCHANGED <<anVars, stVars, botVars>>
    /\ pc[t] = "loading"
    /\ Decide(t, user[t], cache)
    /\ failed' = TRUE
    /\ UNCHANGED <<clock, store, cache, delivered, overlapped>>

\* bot.send_message returns the sent message; record_warning reads the clock
\* and awaits set_last_warning.
send_message(t) ==
    /\ UNCHANGED <<anVars, stVars, botVars>>
    /\ pc[t] = "sending"
    /\ delivered' = [delivered EXCEPT ![user[t]] = Append(@, clock)]
    /\ sent' = [sent EXCEPT ![t] = NumDelivered(NumUsers) + 1]
    /\ now' = [now EXCEPT ![t] = clock]
    /\ pc' = [pc EXCEPT ![t] = "recording"]
    /\ UNCHANGED <<clock, store, cache, user, data, asked, seen, calls, last, failed, overlapped>>

\* send_warning with the cooldown recorded before the send is confirmed.
send_message_fails_recorded(t) ==
    /\ UNCHANGED <<anVars, stVars, botVars>>
    /\ pc[t] = "sending"
    /\ store' = [store EXCEPT ![user[t]] = clock]
    /\ cache' = [cache EXCEPT ![user[t]] = clock]
    /\ Return(t, Returned(user[t], asked[t], "send_failed", 0, clock, seen[t],
                          clock, clock))
    /\ failed' = TRUE
    /\ UNCHANGED <<clock, delivered, overlapped>>

\* bot.send_message raises: send_warning logs it and returns None.
send_message_fails(t) ==
    /\ UNCHANGED <<anVars, stVars, botVars>>
    /\ pc[t] = "sending"
    /\ Return(t, Returned(user[t], asked[t], "send_failed", 0, 0, seen[t],
                          store[user[t]], cache[user[t]]))
    /\ failed' = TRUE
    /\ UNCHANGED <<clock, store, cache, delivered, overlapped>>

\* set_last_warning commits its upsert.
set_last_warning(t) ==
    /\ UNCHANGED <<anVars, stVars, botVars>>
    /\ pc[t] = "recording"
    /\ store' = [store EXCEPT ![user[t]] = now[t]]
    /\ pc' = [pc EXCEPT ![t] = "committed"]
    /\ UNCHANGED <<clock, cache, user, data, asked, seen, now, sent, delivered,
                   calls, last, failed, overlapped>>

\* record_warning with the cache updated before the store write is awaited.
set_last_warning_fails_cached(t) ==
    /\ UNCHANGED <<anVars, stVars, botVars>>
    /\ pc[t] = "recording"
    /\ cache' = [cache EXCEPT ![user[t]] = now[t]]
    /\ Return(t, Returned(user[t], asked[t], "record_failed", 0, now[t], seen[t],
                          store[user[t]], now[t]))
    /\ failed' = TRUE
    /\ UNCHANGED <<clock, store, delivered, overlapped>>

\* set_last_warning raises: record_warning passes it on before it touches the
\* cache, and the except of send_warning returns None.
set_last_warning_fails(t) ==
    /\ UNCHANGED <<anVars, stVars, botVars>>
    /\ pc[t] = "recording"
    /\ Return(t, Returned(user[t], asked[t], "record_failed", 0, now[t], seen[t],
                          store[user[t]], cache[user[t]]))
    /\ failed' = TRUE
    /\ UNCHANGED <<clock, store, cache, delivered, overlapped>>

\* record_warning resumes: self._cache[user_id] = now; send_warning returns
\* sent.message_id.
record_warning(t) ==
    /\ UNCHANGED <<anVars, stVars, botVars>>
    /\ pc[t] = "committed"
    /\ cache' = [cache EXCEPT ![user[t]] = now[t]]
    /\ Return(t, Returned(user[t], asked[t], "sent", sent[t], now[t], seen[t],
                          store[user[t]], now[t]))
    /\ UNCHANGED <<clock, store, delivered, failed, overlapped>>

\* A second passes.
Tick ==
    /\ UNCHANGED <<anVars, stVars, botVars>>
    /\ clock < MaxTime
    /\ clock' = clock + 1
    /\ UNCHANGED <<store, cache, pc, user, data, asked, seen, now, sent, delivered,
                   calls, last, failed, overlapped>>

\* A restart with the last-warning table kept in memory only.
Restart_in_memory ==
    /\ UNCHANGED <<anVars, stVars, botVars>>
    /\ InFlight = {}
    /\ ~cache_is_empty(cache)
    /\ cache' = EmptyTable
    /\ store' = EmptyTable
    /\ UNCHANGED <<clock, pc, user, data, asked, seen, now, sent, delivered,
                   calls, last, failed, overlapped>>

\* The process is started again: a new WarningManager over the same table.
Restart ==
    /\ UNCHANGED <<anVars, stVars, botVars>>
    /\ InFlight = {}
    /\ ~cache_is_empty(cache)
    /\ cache' = EmptyTable
    /\ UNCHANGED <<clock, store, pc, user, data, asked, seen, now, sent, delivered,
                   calls, last, failed, overlapped>>

WmInit ==
    /\ clock = 1
    /\ store = EmptyTable
    /\ cache = EmptyTable
    /\ pc = [t \in Tasks |-> "idle"]
    /\ user = [t \in Tasks |-> NoUser]
    /\ data = [t \in Tasks |-> EmptyTable]
    /\ asked = [t \in Tasks |-> 0]
    /\ seen = [t \in Tasks |-> 0]
    /\ now = [t \in Tasks |-> 0]
    /\ sent = [t \in Tasks |-> 0]
    /\ delivered = [u \in Users |-> <<>>]
    /\ calls = <<>>
    /\ last = NoCall
    /\ failed = FALSE
    /\ overlapped = FALSE

Next ==
    \/ \E t \in Tasks, u \in Users \cup {NoUser} : send_warning(t, u)
    \/ \E t \in Tasks : get_all_warnings(t)
    \/ \E t \in Tasks : load_cache(t)
    \/ \E t \in Tasks : load_cache_fails(t)
    \/ \E t \in Tasks : send_message(t)
    \/ \E t \in Tasks : send_message_fails(t)
    \/ \E t \in Tasks : set_last_warning(t)
    \/ \E t \in Tasks : set_last_warning_fails(t)
    \/ \E t \in Tasks : record_warning(t)
    \/ Tick
    \/ Restart

\* Parts III and IV are not running.
StFrozen ==
    /\ s_pc = "off"
    /\ s_op = "none"
    /\ s_user = NoUser
    /\ s_out = <<>>
    /\ s_before = <<>>
    /\ s_load = "no"

BotFrozen ==
    /\ b_clock = 0
    /\ last_warning = EmptyTable
    /\ env = <<>>
    /\ boot = "off"
    /\ exit_status = 0
    /\ admin_cache = {}
    /\ admin_cache_time = 0
    /\ h_pc = <<>>
    /\ h_msg = <<>>
    /\ h_warn = <<>>
    /\ h_now = <<>>
    /\ d_pc = <<>>
    /\ d_ids = <<>>
    /\ d_due = <<>>
    /\ d_i = <<>>
    /\ warnings = <<>>
    /\ send_attempts = <<>>
    /\ notified = <<>>
    /\ del_attempts = <<>>
    /\ deleted = {}

AnFrozen ==
    /\ msgs = <<>>
    /\ max_chain_depth = 0
    /\ a_pc = "off"
    /\ a_op = "none"
    /\ a_cur = 0
    /\ a_depth = 0
    /\ a_seen = 0
    /\ a_result = "none"

Init == WmInit /\ AnFrozen /\ StFrozen /\ BotFrozen
Spec == Init /\ [][Next]_vars

(***************************************************************************)
(* Properties of Part I.                                                   *)
(***************************************************************************)
Times(u) == {delivered[u][i] : i \in DOMAIN delivered[u]}

\* C1: while no I/O fails and no two calls overlap, a send_warning call sends
\* and returns the warning id exactly when no warning has reached the user
\* before or cooldown_seconds have passed since the last one (the `now` of
\* can_warn minus the last timestamp >= cooldown_seconds); otherwise it is
\* suppressed and returns None.  Three calls at t, t + 1 and t + cooldown
\* are Sent, Suppressed, Sent.
C1_SentSuppressedSent ==
    (~failed /\ ~overlapped /\ last.outcome \in {"sent", "suppressed"}) =>
        /\ (last.outcome = "sent") <=>
               (last.prev = Absent \/ last.at - last.prev >= cooldown_seconds)
        /\ (last.outcome = "sent") => (last.ret # 0 /\ last.ts >= last.at)
        /\ (last.outcome = "suppressed") => last.ret = 0

C1_Witness ==
    /\ ~failed /\ ~overlapped
    /\ calls = << [user |-> 1, outcome |-> "sent"],
                  [user |-> 1, outcome |-> "suppressed"],
                  [user |-> 1, outcome |-> "sent"] >>
    /\ last.at - last.prev = cooldown_seconds

\* C2: the cooldown is persisted only after a confirmed send: every timestamp
\* in the store, in the cache or in a snapshot being loaded is the time of a
\* warning that was delivered to that user; a call whose send failed leaves
\* the user's entries as they were, so a call is suppressed only when a
\* warning did reach the user less than cooldown_seconds before it.
C2_PersistOnlyAfterSend ==
    /\ \A u \in Users :
          /\ store[u] # Absent => store[u] \in Times(u)
          /\ cache[u] # Absent => cache[u] \in Times(u)
          /\ \A t \in Tasks : data[t][u] # Absent => data[t][u] \in Times(u)
    /\ last.outcome = "send_failed" =>
          /\ last.st # Absent => last.st \in Times(last.user)
          /\ last.mi # Absent => last.mi \in Times(last.user)
    /\ last.outcome = "suppressed" =>
          /\ last.prev # Absent
          /\ last.at - last.prev < cooldown_seconds

C2_Witness ==
    /\ calls = << [user |-> 1, outcome |-> "send_failed"],
                  [user |-> 1, outcome |-> "sent"] >>
    /\ last.at = 1
    /\ Len(delivered[1]) = 1

\* C3: whenever bot.send_message succeeded inside a call, the call returns
\* the id of the sent message and, as it returns, the store and the cache
\* both hold the timestamp it recorded for the sender.
C3_DeliveredIsRecorded ==
    last.outcome \in {"sent", "record_failed"} =>
        /\ last.ret # 0
        /\ last.st = last.ts
        /\ last.mi = last.ts

\* C4: without any I/O failure, under every interleaving of send_warning
\* calls, two warnings delivered to the same user are at least
\* cooldown_seconds apart.
C4_OncePerWindow ==
    ~failed =>
        \A u \in Users : \A i, j \in DOMAIN delivered[u] :
            i < j => delivered[u][j] - delivered[u][i] >= cooldown_seconds

\* A call has just returned (this step appended it to the history).
JustReturned == Len(calls') = Len(calls) + 1

\* C11: send_warning on a message whose sender is absent returns None in its
\* first step: it never awaits (no coroutine in flight has an absent sender),
\* bot.send_message is not called, the store is neither read (no snapshot is
\* requested or held) nor written, and the cache is unchanged.
C11_AbsentSenderSkipped ==
    /\ [](\A t \in Tasks : pc[t] # "idle" => user[t] # NoUser)
    /\ [][(JustReturned /\ last'.user = NoUser) =>
             /\ last'.outcome = "skipped" /\ last'.ret = 0
             /\ delivered' = delivered
             /\ store' = store /\ cache' = cache
             /\ data' = data /\ pc' = pc]_vars

C11_Witness ==
    /\ last.user = NoUser /\ last.outcome = "skipped"
    /\ store[1] # Absent
    /\ cache_is_empty(cache)
    /\ InFlight = {}

\* C24: a send_warning call that the cooldown suppresses returns None, and
\* its last step (and no step before it: a call that has not decided yet has
\* sent nothing) sends nothing, leaves the store as it is and leaves the
\* timestamp the cache holds for the sender as it is.  Behaviours in which
\* an I/O call failed are left aside.
C24_SuppressedChangesNothing ==
    /\ [](\A t \in Tasks : pc[t] \in {"loading", "loaded"} => sent[t] = 0)
    /\ [][(JustReturned /\ last'.outcome = "suppressed" /\ ~failed') =>
             /\ last'.ret = 0
             /\ delivered' = delivered
             /\ store' = store
             /\ cache[last'.user] # Absent =>
                   cache'[last'.user] = cache[last'.user]]_vars

\* C12: once all calls have finished and no I/O has failed, the cache is
\* either empty (to be loaded on the next access) or equal to the store.
C12_MirrorAgreesWithStore ==
    (InFlight = {} /\ ~failed) => (cache_is_empty(cache) \/ cache = store)

\* C13: the step in which the store write of record_warning fails changes
\* neither the cache nor the store, and the cache never holds an entry for a
\* user who has no row in the store.
C13_FailedWriteKeepsMirror ==
    /\ [](\A u \in Users : cache[u] # Absent => store[u] # Absent)
    /\ [][(JustReturned /\ last'.outcome = "record_failed") =>
             (cache' = cache /\ store' = store)]_vars

C13_Witness ==
    /\ calls = << [user |-> 1, outcome |-> "record_failed"],
                  [user |-> 1, outcome |-> "sent"] >>
    /\ last.prev # Absent
    /\ last.at - last.prev < cooldown_seconds

\* C14: while no I/O fails, the stored timestamp of a user never decreases
\* and a row is never removed (Absent is below every timestamp), whatever the
\* interleaving of the calls; the clock of the model never goes back.
C14_StoreMonotonic ==
    [][~failed' => \A u \in Users : store'[u] >= store[u]]_vars

\* C15: the call that loads the snapshot after a restart.  With no failure and
\* no overlapping calls, a coroutine holding a snapshot for a user who already
\* got a warning means the cache was emptied by a restart; if less than
\* cooldown_seconds have passed since that warning, its next step assigns the
\* snapshot to the cache and returns None without sending.
C15_CooldownSurvivesRestart ==
    [][\A t \in Tasks :
          ( /\ pc[t] = "loaded" /\ pc'[t] # "loaded"
            /\ ~failed /\ ~overlapped
            /\ LastDelivery(user[t]) # Absent
            /\ clock - LastDelivery(user[t]) < cooldown_seconds )
          => /\ JustReturned
             /\ last'.user = user[t] /\ last'.outcome = "suppressed" /\ last'.ret = 0
             /\ delivered' = delivered
             /\ cache' = store
             /\ cache'[user[t]] = LastDelivery(user[t])]_vars

C15_Witness ==
    \E t \in Tasks :
        /\ pc[t] = "loaded"
        /\ ~failed /\ ~overlapped
        /\ calls = << [user |-> 1, outcome |-> "sent"] >>
        /\ user[t] = 1
        /\ clock - LastDelivery(1) = cooldown_seconds - 1
        /\ data[t][1] = LastDelivery(1)
        /\ cache_is_empty(cache)


(***************************************************************************)
(* Part II.  MessageAnalyzer.                                              *)
(*                                                                         *)
(* A message is what the analyzer reads of it.  An attribute is "missing"  *)
(* (the object has no such attribute: getattr gives its default, a plain   *)
(* access raises AttributeError), "none" (None) or set.                    *)
(***************************************************************************)
TELEGRAM_SERVICE_ID == 777000
\* Settings(..., CHANNEL_ID=999) and from_user=SimpleNamespace(id=10) of the tests.
channel_id == 999
SomeUserId == 10
SomeChatId == channel_id + 1

\* A user or a chat: missing, None, or an object with or without an id.
Missing == [tag |-> "missing", has_id |-> FALSE, id |-> 0]
None == [tag |-> "none", has_id |-> FALSE, id |-> 0]
ObjNoId == [tag |-> "obj", has_id |-> FALSE, id |-> 0]
Obj(i) == [tag |-> "obj", has_id |-> TRUE, id |-> i]

UserValues == {Missing, None, ObjNoId, Obj(TELEGRAM_SERVICE_ID), Obj(SomeUserId)}
ChatValues == {Missing, None, ObjNoId, Obj(channel_id), Obj(SomeChatId)}

\* message.forward_origin: missing, None, or an origin whose chat is a chat value.
OriginMissing == [tag |-> "missing", chat |-> Missing]
OriginNone == [tag |-> "none", chat |-> Missing]
Origin(c) == [tag |-> "obj", chat |-> c]
OriginValues == {OriginMissing, OriginNone} \cup {Origin(c) : c \in ChatValues}

Message(sc, fu, af, fc, fo, th, rt, r) ==
    [sender_chat |-> sc, from_user |-> fu, is_automatic_forward |-> af,
     forward_from_chat |-> fc, forward_origin |-> fo, message_thread_id |-> th,
     reply_tag |-> rt, reply_to |-> r]

\* getattr(obj, "id", None) == wanted
id_is(o, wanted) == o.has_id /\ o.id = wanted

\* The try block of is_channel_post with its checks in another order: the
\* sender before sender_chat.
is_channel_post_try_sender_first(m) ==
    IF m.from_user.tag = "missing" THEN "raise"
    ELSE IF m.from_user.tag = "obj" /\ id_is(m.from_user, TELEGRAM_SERVICE_ID)
    THEN "true"
    ELSE IF m.sender_chat = "obj" THEN "true"
    ELSE IF m.is_automatic_forward = "true" THEN "true"
    ELSE IF m.forward_from_chat.tag = "obj" /\ id_is(m.forward_from_chat, channel_id)
    THEN "true"
    ELSE IF /\ m.forward_origin.tag = "obj"
            /\ m.forward_origin.chat.tag = "obj"
            /\ id_is(m.forward_origin.chat, channel_id)
    THEN "true"
    ELSE "false"

\* analyzer.py, the try block of is_channel_post: "true" or "false" for what a
\* return gives, "raise" for the AttributeError of message.from_user.
is_channel_post_try(m) ==
    IF m.sender_chat = "obj" THEN "true"
    ELSE IF m.from_user.tag = "missing" THEN "raise"
    ELSE IF m.from_user.tag = "obj" /\ id_is(m.from_user, TELEGRAM_SERVICE_ID)
    THEN "true"
    ELSE IF m.is_automatic_forward = "true" THEN "true"
    ELSE IF m.forward_from_chat.tag = "obj" /\ id_is(m.forward_from_chat, channel_id)
    THEN "true"
    ELSE IF /\ m.forward_origin.tag = "obj"
            /\ m.forward_origin.chat.tag = "obj"
            /\ id_is(m.forward_origin.chat, channel_id)
    THEN "true"
    ELSE "false"

\* analyzer.py, MessageAnalyzer.is_channel_post: `except Exception: return False`.
is_channel_post(m) ==
    IF is_channel_post_try(m) = "raise" THEN FALSE
    ELSE is_channel_post_try(m) = "true"

\* bot.py, MessageAnalyzer.is_channel_post: no try, no sender_chat check, plain
\* attribute accesses.
bot_is_channel_post(m) ==
    IF m.from_user.tag = "missing" THEN "raise"
    ELSE IF m.from_user.tag = "obj" /\ ~m.from_user.has_id THEN "raise"
    ELSE IF m.from_user.tag = "obj" /\ m.from_user.id = TELEGRAM_SERVICE_ID
    THEN "true"
    ELSE IF m.is_automatic_forward = "true" THEN "true"
    ELSE IF m.forward_from_chat.tag = "missing" THEN "raise"
    ELSE IF m.forward_from_chat.tag = "obj" /\ ~m.forward_from_chat.has_id
    THEN "raise"
    ELSE IF m.forward_from_chat.tag = "obj" /\ m.forward_from_chat.id = channel_id
    THEN "true"
    ELSE IF m.forward_origin.tag # "obj" \/ m.forward_origin.chat.tag = "missing"
    THEN "false"
    ELSE IF ~m.forward_origin.chat.has_id THEN "raise"
    ELSE IF m.forward_origin.chat.id = channel_id THEN "true"
    ELSE "false"

\* getattr(message, "message_thread_id", None) is truthy.
has_thread_id(m) == m.message_thread_id = "set"

\* getattr(message, "reply_to_message", None) is truthy.
has_reply(m) == m.reply_tag = "msg"

AnDone(op, result) ==
    /\ a_pc' = "done"
    /\ a_op' = op
    /\ a_result' = result

\* analyzer.is_channel_post(message)
is_channel_post_call ==
    /\ UNCHANGED <<wmVars, stVars, botVars>>
    /\ a_pc = "idle"
    /\ AnDone("is_channel_post", IF is_channel_post(msgs[1]) THEN "true" ELSE "false")
    /\ UNCHANGED <<msgs, max_chain_depth, a_cur, a_depth, a_seen>>

\* bot.py's is_channel_post(message)
bot_is_channel_post_call ==
    /\ UNCHANGED <<wmVars, stVars, botVars>>
    /\ a_pc = "idle"
    /\ AnDone("bot_is_channel_post", bot_is_channel_post(msgs[1]))
    /\ UNCHANGED <<msgs, max_chain_depth, a_cur, a_depth, a_seen>>

\* is_in_discussion_thread that goes to the reply chain without looking at
\* the thread id of the message itself.
is_in_discussion_thread_no_thread_check ==
    /\ UNCHANGED <<wmVars, stVars, botVars>>
    /\ a_pc = "idle"
    /\ IF is_channel_post(msgs[1])
       THEN /\ AnDone("is_in_discussion_thread", "true")
            /\ UNCHANGED <<a_cur, a_depth>>
       ELSE /\ a_pc' = "walk"
            /\ a_op' = "is_in_discussion_thread"
            /\ a_cur' = 1
            /\ a_depth' = 0
            /\ UNCHANGED a_result
    /\ UNCHANGED <<msgs, max_chain_depth, a_seen>>

\* analyzer.is_in_discussion_thread(message), up to its call of
\* _check_reply_chain(message, depth=0).
is_in_discussion_thread ==
    /\ UNCHANGED <<wmVars, stVars, botVars>>
    /\ a_pc = "idle"
    /\ IF is_channel_post(msgs[1]) \/ has_thread_id(msgs[1])
       THEN /\ AnDone("is_in_discussion_thread", "true")
            /\ UNCHANGED <<a_cur, a_depth>>
       ELSE /\ a_pc' = "walk"
            /\ a_op' = "is_in_discussion_thread"
            /\ a_cur' = 1
            /\ a_depth' = 0
            /\ UNCHANGED a_result
    /\ UNCHANGED <<msgs, max_chain_depth, a_seen>>

\* _check_reply_chain with the depth test off by one.
check_reply_chain_deeper ==
    /\ UNCHANGED <<wmVars, stVars, botVars>>
    /\ a_pc = "walk"
    /\ UNCHANGED <<msgs, max_chain_depth>>
    /\ IF a_depth > max_chain_depth \/ ~has_reply(msgs[a_cur])
       THEN /\ AnDone("is_in_discussion_thread", "false")
            /\ UNCHANGED <<a_cur, a_depth, a_seen>>
       ELSE LET reply == msgs[msgs[a_cur].reply_to] IN
            /\ a_seen' = a_seen + 1
            /\ IF is_channel_post(reply) \/ has_thread_id(reply)
               THEN /\ AnDone("is_in_discussion_thread", "true")
                    /\ UNCHANGED <<a_cur, a_depth>>
               ELSE IF has_reply(reply)
               THEN /\ a_cur' = msgs[a_cur].reply_to
                    /\ a_depth' = a_depth + 1
                    /\ UNCHANGED <<a_pc, a_op, a_result>>
               ELSE /\ AnDone("is_in_discussion_thread", "false")
                    /\ UNCHANGED <<a_cur, a_depth>>

\* _check_reply_chain that takes a chain that ends for a thread.
check_reply_chain_open_end ==
    /\ UNCHANGED <<wmVars, stVars, botVars>>
    /\ a_pc = "walk"
    /\ UNCHANGED <<msgs, max_chain_depth>>
    /\ IF a_depth >= max_chain_depth \/ ~has_reply(msgs[a_cur])
       THEN /\ AnDone("is_in_discussion_thread", "false")
            /\ UNCHANGED <<a_cur, a_depth, a_seen>>
       ELSE LET reply == msgs[msgs[a_cur].reply_to] IN
            /\ a_seen' = a_seen + 1
            /\ IF is_channel_post(reply) \/ has_thread_id(reply)
               THEN /\ AnDone("is_in_discussion_thread", "true")
                    /\ UNCHANGED <<a_cur, a_depth>>
               ELSE IF has_reply(reply)
               THEN /\ a_cur' = msgs[a_cur].reply_to
                    /\ a_depth' = a_depth + 1
                    /\ UNCHANGED <<a_pc, a_op, a_result>>
               ELSE /\ AnDone("is_in_discussion_thread", "true")
                    /\ UNCHANGED <<a_cur, a_depth>>

\* _check_reply_chain without its depth test, as for chains known to be
\* acyclic.
check_reply_chain_acyclic ==
    /\ UNCHANGED <<wmVars, stVars, botVars>>
    /\ a_pc = "walk"
    /\ UNCHANGED <<msgs, max_chain_depth>>
    /\ IF ~has_reply(msgs[a_cur])
       THEN /\ AnDone("is_in_discussion_thread", "false")
            /\ UNCHANGED <<a_cur, a_depth, a_seen>>
       ELSE LET reply == msgs[msgs[a_cur].reply_to] IN
            /\ a_seen' = IF a_seen <= max_chain_depth THEN a_seen + 1 ELSE a_seen
            /\ IF is_channel_post(reply) \/ has_thread_id(reply)
               THEN /\ AnDone("is_in_discussion_thread", "true")
                    /\ UNCHANGED <<a_cur, a_depth>>
               ELSE IF has_reply(reply)
               THEN /\ a_cur' = msgs[a_cur].reply_to
                    /\ UNCHANGED <<a_depth, a_pc, a_op, a_result>>
               ELSE /\ AnDone("is_in_discussion_thread", "false")
                    /\ UNCHANGED <<a_cur, a_depth>>

\* One call of analyzer._check_reply_chain(message, depth), message = a_cur,
\* up to its return or its recursive call.
check_reply_chain ==
    /\ UNCHANGED <<wmVars, stVars, botVars>>
    /\ a_pc = "walk"
    /\ UNCHANGED <<msgs, max_chain_depth>>
    /\ IF a_depth >= max_chain_depth \/ ~has_reply(msgs[a_cur])
       THEN /\ AnDone("is_in_discussion_thread", "false")
            /\ UNCHANGED <<a_cur, a_depth, a_seen>>
       ELSE LET reply == msgs[msgs[a_cur].reply_to] IN
            /\ a_seen' = a_seen + 1
            /\ IF is_channel_post(reply) \/ has_thread_id(reply)
               THEN /\ AnDone("is_in_discussion_thread", "true")
                    /\ UNCHANGED <<a_cur, a_depth>>
               ELSE IF has_reply(reply)
               THEN /\ a_cur' = msgs[a_cur].reply_to
                    /\ a_depth' = a_depth + 1
                    /\ UNCHANGED <<a_pc, a_op, a_result>>
               ELSE /\ AnDone("is_in_discussion_thread", "false")
                    /\ UNCHANGED <<a_cur, a_depth>>

\* bot.py's is_in_discussion_thread(message), up to its call of
\* _check_reply_chain(message, depth=0).
bot_is_in_discussion_thread ==
    /\ UNCHANGED <<wmVars, stVars, botVars>>
    /\ a_pc = "idle"
    /\ IF bot_is_channel_post(msgs[1]) = "raise"
       THEN /\ AnDone("bot_is_in_discussion_thread", "raise")
            /\ UNCHANGED <<a_cur, a_depth>>
       ELSE IF bot_is_channel_post(msgs[1]) = "true" \/ has_thread_id(msgs[1])
       THEN /\ AnDone("bot_is_in_discussion_thread", "true")
            /\ UNCHANGED <<a_cur, a_depth>>
       ELSE /\ a_pc' = "bot_walk"
            /\ a_op' = "bot_is_in_discussion_thread"
            /\ a_cur' = 1
            /\ a_depth' = 0
            /\ UNCHANGED a_result
    /\ UNCHANGED <<msgs, max_chain_depth, a_seen>>

\* One call of bot.py's _check_reply_chain(message, depth): the reply's own
\* reply link is followed before its thread id is looked at, and
\* message.reply_to_message is a plain attribute access.
bot_check_reply_chain ==
    /\ UNCHANGED <<wmVars, stVars, botVars>>
    /\ a_pc = "bot_walk"
    /\ UNCHANGED <<msgs, max_chain_depth>>
    /\ IF a_depth >= max_chain_depth
       THEN /\ AnDone("bot_is_in_discussion_thread", "false")
            /\ UNCHANGED <<a_cur, a_depth, a_seen>>
       ELSE IF msgs[a_cur].reply_tag = "missing"
       THEN /\ AnDone("bot_is_in_discussion_thread", "raise")
            /\ UNCHANGED <<a_cur, a_depth, a_seen>>
       ELSE IF ~has_reply(msgs[a_cur])
       THEN /\ AnDone("bot_is_in_discussion_thread", "false")
            /\ UNCHANGED <<a_cur, a_depth, a_seen>>
       ELSE LET reply == msgs[msgs[a_cur].reply_to] IN
            /\ a_seen' = a_seen + 1
            /\ IF bot_is_channel_post(reply) = "raise" \/ reply.reply_tag = "missing"
               THEN /\ AnDone("bot_is_in_discussion_thread",
                              IF bot_is_channel_post(reply) = "true" THEN "true" ELSE "raise")
                    /\ UNCHANGED <<a_cur, a_depth>>
               ELSE IF bot_is_channel_post(reply) = "true"
               THEN /\ AnDone("bot_is_in_discussion_thread", "true")
                    /\ UNCHANGED <<a_cur, a_depth>>
               ELSE IF has_reply(reply)
               THEN /\ a_cur' = msgs[a_cur].reply_to
                    /\ a_depth' = a_depth + 1
                    /\ UNCHANGED <<a_pc, a_op, a_result>>
               ELSE /\ AnDone("bot_is_in_discussion_thread",
                              IF has_thread_id(reply) THEN "true" ELSE "false")
                    /\ UNCHANGED <<a_cur, a_depth>>

\* Every shape of a single message: all its attributes, no usable reply link.
FullMessages ==
    {Message(sc, fu, af, fc, fo, th, rt, 0) :
        sc \in {"missing", "none", "obj"}, fu \in UserValues,
        af \in {"missing", "false", "true"}, fc \in ChatValues,
        fo \in OriginValues, th \in {"missing", "none", "set"},
        rt \in {"missing", "none"}}

\* The messages of a reply chain: a user's message, a channel post (the tests'
\* msg1), a message with a thread id, and an object without from_user that is
\* flagged as an automatic forward; then, with every attribute present as
\* aiogram builds a message, a user's message and a post the channel forwarded
\* automatically.
ChainKinds == {"plain", "post", "thread", "broken", "user", "forward"}

ChainMessage(kind, rt, r) ==
    CASE kind = "plain" ->
            Message("missing", Obj(SomeUserId), "missing", Missing, OriginMissing,
                    "missing", rt, r)
      [] kind = "post" ->
            Message("obj", None, "missing", Missing, OriginMissing, "missing", rt, r)
      [] kind = "thread" ->
            Message("none", Obj(SomeUserId), "false", None, OriginNone, "set", rt, r)
      [] kind = "broken" ->
            Message("none", Missing, "true", None, OriginNone, "none", rt, r)
      [] kind = "user" ->
            Message("none", Obj(SomeUserId), "false", None, OriginNone, "none", rt, r)
      [] kind = "forward" ->
            Message("none", Obj(TELEGRAM_SERVICE_ID), "true", Obj(channel_id),
                    Origin(Obj(channel_id)), "none", rt, r)

\* How the chain 1 -> 2 -> ... -> n ends: the last message has no reply
\* attribute, replies to nothing, or (corrupted data) replies to a message of
\* the chain.
ChainEnds(n) == {[tag |-> "missing", to |-> 0], [tag |-> "none", to |-> 0]}
                \cup {[tag |-> "msg", to |-> j] : j \in 1..n}

Chain(n, kinds, end) ==
    [i \in 1..n |->
        IF i < n THEN ChainMessage(kinds[i], "msg", i + 1)
        ELSE ChainMessage(kinds[i], end.tag, end.to)]

WmFrozen ==
    /\ clock = 1
    /\ store = EmptyTable
    /\ cache = EmptyTable
    /\ pc = [t \in Tasks |-> "off"]
    /\ user = [t \in Tasks |-> NoUser]
    /\ data = [t \in Tasks |-> EmptyTable]
    /\ asked = [t \in Tasks |-> 0]
    /\ seen = [t \in Tasks |-> 0]
    /\ now = [t \in Tasks |-> 0]
    /\ sent = [t \in Tasks |-> 0]
    /\ delivered = [u \in Users |-> <<>>]
    /\ calls = <<>>
    /\ last = NoCall
    /\ failed = FALSE
    /\ overlapped = FALSE

AnInit ==
    /\ max_chain_depth \in 0..MaxDepth
    /\ \/ \E m \in FullMessages : msgs = <<m>>
       \/ \E n \in 1..MaxNodes : \E kinds \in [1..n -> ChainKinds] :
              \E end \in ChainEnds(n) : msgs = Chain(n, kinds, end)
    /\ a_pc = "idle"
    /\ a_op = "none"
    /\ a_cur = 0
    /\ a_depth = 0
    /\ a_seen = 0
    /\ a_result = "none"

InitAnalyzer == WmFrozen /\ AnInit /\ StFrozen /\ BotFrozen

NextAnalyzer ==
    \/ is_channel_post_call
    \/ bot_is_channel_post_call
    \/ is_in_discussion_thread
    \/ check_reply_chain
    \/ bot_is_in_discussion_thread
    \/ bot_check_reply_chain

SpecAnalyzer == InitAnalyzer /\ [][NextAnalyzer]_vars

\* The walk is a chain of awaited calls of one coroutine: once started it is
\* run to its end by the event loop.
SpecAnalyzerFair == SpecAnalyzer /\ WF_vars(check_reply_chain)

(***************************************************************************)
(* Properties of Part II.                                                  *)
(***************************************************************************)
Ran(op) == a_pc = "done" /\ a_op = op

\* The message a message replies to (0: none).
Parent(k) == IF k # 0 /\ has_reply(msgs[k]) THEN msgs[k].reply_to ELSE 0

\* The ancestor of the message at depth d, 0 for its parent (0: none).
RECURSIVE Ancestor(_)
Ancestor(d) == IF d = 0 THEN Parent(1) ELSE Parent(Ancestor(d - 1))

\* A channel post or a message that carries a thread id.
Qualifies(k) == k # 0 /\ (is_channel_post(msgs[k]) \/ has_thread_id(msgs[k]))

QualifyingDepths == {d \in 0..(MaxNodes + MaxDepth) : Qualifies(Ancestor(d))}

\* C5: for a message that is neither a channel post nor carries a thread id,
\* is_in_discussion_thread returns true exactly when an ancestor at a depth
\* D < max_chain_depth (0 for the parent) is a channel post or carries a
\* thread id: with the one such ancestor at depth D it is true for
\* D < max_chain_depth and false for D >= max_chain_depth, and always false
\* for max_chain_depth = 0.
C5_DepthBound ==
    (Ran("is_in_discussion_thread") /\ ~Qualifies(1)) =>
        ((a_result = "true") <=>
            (\E d \in QualifyingDepths : d < max_chain_depth))

C5_Witness ==
    /\ Ran("is_in_discussion_thread")
    /\ ~Qualifies(1)
    /\ max_chain_depth = 2
    /\ QualifyingDepths = {max_chain_depth - 1}
    /\ a_result = "true"

\* C6: analyzer.py's is_channel_post returns true for every message whose
\* sender_chat is set, whatever its other attributes are, missing ones and
\* malformed ones included.
C6_SenderChat ==
    (Ran("is_channel_post") /\ msgs[1].sender_chat = "obj") => a_result = "true"

C6_Witness ==
    /\ Ran("is_channel_post")
    /\ msgs[1].sender_chat = "obj"
    /\ msgs[1].from_user = Missing
    /\ msgs[1].forward_origin = Origin(ObjNoId)
    /\ a_result = "true"

\* The four conditions, an attribute that is missing counting as not present.
IsServiceSender(m) == m.from_user.tag = "obj" /\ id_is(m.from_user, TELEGRAM_SERVICE_ID)

ForwardedFromChannel(m) ==
    \/ m.forward_from_chat.tag = "obj" /\ id_is(m.forward_from_chat, channel_id)
    \/ /\ m.forward_origin.tag = "obj"
       /\ m.forward_origin.chat.tag = "obj"
       /\ id_is(m.forward_origin.chat, channel_id)

FourConditions(m) ==
    \/ m.sender_chat = "obj"
    \/ IsServiceSender(m)
    \/ m.is_automatic_forward = "true"
    \/ ForwardedFromChannel(m)

\* A message as aiogram builds it: every attribute is there, users and chats
\* have ids (an origin that is not a channel's has no chat).
WellFormed(m) ==
    /\ m.sender_chat # "missing"
    /\ m.from_user.tag # "missing" /\ (m.from_user.tag = "obj" => m.from_user.has_id)
    /\ m.is_automatic_forward # "missing"
    /\ m.forward_from_chat.tag # "missing"
    /\ m.forward_from_chat.tag = "obj" => m.forward_from_chat.has_id
    /\ m.forward_origin.tag # "missing"
    /\ m.forward_origin.tag = "obj" =>
           (m.forward_origin.chat.tag = "missing" \/ m.forward_origin.chat.has_id)

\* C7: is_channel_post returns true for every message whose forward-origin
\* chat id is channel_id, whatever its other attributes are, and its result
\* is the disjunction of the four conditions (sender_chat, sender 777000,
\* automatic forward, forward origin = channel_id); for analyzer.py on every
\* message, for bot.py on every message as aiogram builds it.
C7_ForwardOrigin ==
    /\ Ran("is_channel_post") =>
          /\ ForwardedFromChannel(msgs[1]) => a_result = "true"
          /\ (a_result = "true") <=> FourConditions(msgs[1])
    /\ (Ran("bot_is_channel_post") /\ WellFormed(msgs[1])) =>
          /\ ForwardedFromChannel(msgs[1]) => a_result = "true"
          /\ (a_result = "true") <=> FourConditions(msgs[1])

\* The message with every missing attribute present and None (False for the
\* flag).
AsNone(o) == IF o.tag = "missing" THEN None ELSE o

Normalised(m) ==
    [m EXCEPT !.sender_chat = IF @ = "missing" THEN "none" ELSE @,
              !.from_user = AsNone(@),
              !.is_automatic_forward = IF @ = "missing" THEN "false" ELSE @,
              !.forward_from_chat = AsNone(@),
              !.forward_origin = IF @.tag = "missing" THEN OriginNone
                                 ELSE [@ EXCEPT !.chat = AsNone(@)]]

\* C8: is_channel_post never raises, and a missing attribute counts as not
\* present: the result is a boolean, the one the same message gives with its
\* missing attributes set to None.
C8_MissingIsAbsent ==
    Ran("is_channel_post") =>
        /\ a_result \in {"true", "false"}
        /\ (a_result = "true") <=> is_channel_post(Normalised(msgs[1]))

\* C9: is_in_discussion_thread returns true for every message that is a channel
\* post or carries a thread id, and inspects no ancestor for it, whether it
\* has a parent or not and whatever max_chain_depth is.
C9_SelfFirst ==
    (Ran("is_in_discussion_thread") /\ Qualifies(1)) =>
        (a_result = "true" /\ a_seen = 0)

C9_Witness ==
    /\ Ran("is_in_discussion_thread")
    /\ has_thread_id(msgs[1])
    /\ ~is_channel_post(msgs[1])
    /\ has_reply(msgs[1])
    /\ max_chain_depth = 0
    /\ a_result = "true"

\* C10: is_in_discussion_thread returns false for every message none of whose
\* chain (the message and the messages its reply links lead to) is a channel
\* post or carries a thread id; so it does for a message with no reply link,
\* no thread id and not a channel post.
C10_NothingQualifies ==
    (Ran("is_in_discussion_thread") /\ \A k \in DOMAIN msgs : ~Qualifies(k)) =>
        a_result = "false"

C10_Witness ==
    /\ Ran("is_in_discussion_thread")
    /\ \A k \in DOMAIN msgs : ~Qualifies(k)
    /\ Len(msgs) = 3
    /\ ~has_reply(msgs[3])
    /\ max_chain_depth = MaxDepth
    /\ a_seen = 2
    /\ a_result = "false"

\* Every message of the graph is as aiogram builds it.
AllWellFormed == \A k \in DOMAIN msgs : WellFormed(msgs[k]) /\ msgs[k].reply_tag # "missing"

\* An ancestor within the depth bound carries a thread id, and no message
\* before it on the chain qualifies in either variant.
ThreadAncestorFirst ==
    \E d \in 0..(MaxDepth - 1) :
        /\ d < max_chain_depth
        /\ Ancestor(d) # 0
        /\ has_thread_id(msgs[Ancestor(d)])
        /\ ~Qualifies(1)
        /\ \A e \in 0..(MaxDepth - 1) : e < d => ~Qualifies(Ancestor(e))

\* C21: in both variants an ancestor within the depth bound that carries a
\* thread id makes is_in_discussion_thread return true, whether that ancestor
\* has a parent or not; and on graphs of messages as aiogram builds them, none
\* sent in a channel's name (sender_chat, which bot.py does not read), bot.py
\* returns what analyzer.py returns.
C21_ThreadAncestorBothVariants ==
    /\ (Ran("is_in_discussion_thread") /\ ThreadAncestorFirst) => a_result = "true"
    /\ (Ran("bot_is_in_discussion_thread") /\ AllWellFormed /\ ThreadAncestorFirst) =>
          a_result = "true"
    /\ ( /\ Ran("bot_is_in_discussion_thread") /\ AllWellFormed
         /\ \A k \in DOMAIN msgs : msgs[k].sender_chat # "obj" ) =>
          ((a_result = "true") <=>
              (Qualifies(1) \/ \E d \in QualifyingDepths : d < max_chain_depth))

\* The reply chain of the message never ends: it runs into a cycle.
OnCycle == Ancestor(MaxNodes) # 0

\* C22: analyzer.py's reply-chain walk ends on every input, cyclic chains
\* included: it inspects at most max_chain_depth ancestors, it returns false
\* on a cycle none of whose messages qualifies, and a walk that has started
\* comes to its result.
C22_WalkTerminates ==
    /\ [](a_seen <= max_chain_depth /\ a_depth <= max_chain_depth)
    /\ []((Ran("is_in_discussion_thread") /\ OnCycle
              /\ \A k \in DOMAIN msgs : ~Qualifies(k)) => a_result = "false")
    /\ (a_pc = "walk") ~> Ran("is_in_discussion_thread")

C22_Witness ==
    /\ Ran("is_in_discussion_thread")
    /\ OnCycle
    /\ \A k \in DOMAIN msgs : ~Qualifies(k)
    /\ max_chain_depth = MaxDepth
    /\ a_seen = MaxDepth
    /\ a_result = "false"

(***************************************************************************)
(* Part III.  The read-only operations of WarningManager, and              *)
(* DiscussionBot._cmd_warnings of src/bot.py, which formats the same       *)
(* statistics from datetime objects.                                       *)
(***************************************************************************)
\* How finely the model resolves a second of datetime.now().
TicksPerSecond == 2

\* WarningManager.__init__(self, cooldown_seconds: int = 180) of bot.py, which
\* DiscussionBot constructs without an argument.
bot_cooldown_seconds == 180

\* What an operation returned: a value (can_warn, get_time_until_next_warning),
\* a text (format_stats, _cmd_warnings), nothing, or an exception.
Out(kind, value, lines) == [kind |-> kind, value |-> value, lines |-> lines]

\* self._cache.items(): the keys among user ids 1..n, in the order of the rows
\* of a snapshot.
RECURSIVE items(_, _)
items(c, n) ==
    IF n = 0 THEN <<>>
    ELSE IF c[n] = Absent THEN items(c, n - 1) ELSE Append(items(c, n - 1), n)

\* sorted(..., key=lambda x: x[1], reverse=True) is stable: u goes behind
\* every item whose timestamp is not smaller.
RECURSIVE insert_reverse(_, _, _)
insert_reverse(done, u, c) ==
    IF done = <<>> THEN <<u>>
    ELSE IF c[Head(done)] >= c[u]
         THEN <<Head(done)>> \o insert_reverse(Tail(done), u, c)
         ELSE <<u>> \o done

RECURSIVE sorted_reverse(_, _)
sorted_reverse(seq, c) ==
    IF seq = <<>> THEN <<>>
    ELSE insert_reverse(sorted_reverse(SubSeq(seq, 1, Len(seq) - 1), c), seq[Len(seq)], c)

\* The elapsed time as format_stats words it; ticks is 1 for whole seconds.
time_str(elapsed, ticks) ==
    IF elapsed < 60 * ticks THEN [n |-> elapsed \div ticks, unit |-> "s"]
    ELSE IF elapsed < 3600 * ticks THEN [n |-> elapsed \div (60 * ticks), unit |-> "m"]
    ELSE [n |-> elapsed \div (3600 * ticks), unit |-> "h"]

\* One line of format_stats.
stats_line(u, ts, t_now) ==
    LET elapsed == t_now - ts
        remaining == cooldown_seconds - elapsed
    IN  [user_id |-> u, time_str |-> time_str(elapsed, 1),
         available |-> ~(remaining > 0),
         remaining |-> IF remaining > 0 THEN remaining ELSE 0]

\* format_stats after its load: the text over cache c.
format_stats_text(c, t_now) ==
    IF cache_is_empty(c) THEN Out("no_warnings", 0, <<>>)
    ELSE LET order == sorted_reverse(items(c, NumUsers), c)
         IN  Out("lines", 0, [i \in 1..Len(order) |-> stats_line(order[i], c[order[i]], t_now)])

\* bot.py's get_time_until_next_warning on a datetime: max(0, int(remaining))
\* if remaining > 0 else None, as [none, value].
bot_get_time_until_next_warning(ts, t_now) ==
    IF ts = Absent THEN [none |-> TRUE, value |-> 0]
    ELSE LET remaining == bot_cooldown_seconds * TicksPerSecond - (t_now - ts)
         IN  IF remaining > 0
             THEN [none |-> FALSE, value |-> remaining \div TicksPerSecond]
             ELSE [none |-> TRUE, value |-> 0]

\* One line of _cmd_warnings: `if remaining` is false for None and for 0.
cmd_warnings_line(u, ts, t_now) ==
    LET remaining == bot_get_time_until_next_warning(ts, t_now)
        truthy == ~remaining.none /\ remaining.value # 0
    IN  [user_id |-> u, time_str |-> time_str(t_now - ts, TicksPerSecond),
         available |-> ~truthy,
         remaining |-> IF truthy THEN remaining.value ELSE 0]

\* The operation returns r: computed over cache c.
StatsReturn(op, u, c, how) ==
    /\ s_pc' = "done"
    /\ s_load' = how
    /\ s_out' = CASE op = "can_warn" -> Out("value", can_warn(c[u], clock), <<>>)
                  [] op = "get_time_until_next_warning" ->
                         Out("value", get_time_until_next_warning(c[u], clock), <<>>)
                  [] op = "format_stats" -> format_stats_text(c, clock)

\* can_warn, get_time_until_next_warning and format_stats all start with
\* `if not self._cache: await self._load_cache()`.
StatsCall(op, u) ==
    /\ s_pc \in {"idle", "done"}
    /\ s_op' = op
    /\ s_user' = u
    /\ s_before' = [cache |-> cache, store |-> store]
    /\ UNCHANGED <<wmVars, anVars, botVars>>
    /\ IF cache_is_empty(cache)
       THEN s_pc' = "loading" /\ s_load' = "no" /\ s_out' = Out("none", 0, <<>>)
       ELSE StatsReturn(op, u, cache, "no")

can_warn_call(u) == StatsCall("can_warn", u)

get_time_until_next_warning_call(u) == StatsCall("get_time_until_next_warning", u)

format_stats == StatsCall("format_stats", NoUser)

\* _load_cache: get_all_warnings returns the rows, self._cache = data.
stats_load_cache ==
    /\ s_pc = "loading"
    /\ cache' = store
    /\ StatsReturn(s_op, s_user, store, "read")
    /\ UNCHANGED <<clock, store, pc, user, data, asked, seen, now, sent, delivered,
                   calls, last, failed, overlapped>>
    /\ UNCHANGED <<s_op, s_user, s_before, anVars, botVars>>

\* _load_cache without its try: the exception of get_all_warnings leaves the
\* operation.
stats_load_cache_fails_unhandled ==
    /\ s_pc = "loading"
    /\ s_pc' = "done"
    /\ s_load' = "failed"
    /\ s_out' = Out("raise", 0, <<>>)
    /\ UNCHANGED <<wmVars, s_op, s_user, s_before, anVars, botVars>>

\* get_all_warnings raises: _load_cache logs it and the operation goes on with
\* the cache as it is.
stats_load_cache_fails ==
    /\ s_pc = "loading"
    /\ StatsReturn(s_op, s_user, cache, "failed")
    /\ UNCHANGED <<wmVars, s_op, s_user, s_before, anVars, botVars>>

\* record_warning(user_id) called on its own: it reads the clock and awaits
\* set_last_warning, without a look at the cache.
record_warning_call(u) ==
    /\ s_pc \in {"idle", "done"}
    /\ s_pc' = "recording"
    /\ s_op' = "record_warning"
    /\ s_user' = u
    /\ s_load' = "no"
    /\ s_out' = Out("none", 0, <<>>)
    /\ s_before' = [cache |-> cache, store |-> store]
    /\ UNCHANGED <<wmVars, anVars, botVars>>

\* set_last_warning commits and record_warning sets self._cache[user_id].
stats_set_last_warning ==
    /\ s_pc = "recording"
    /\ s_pc' = "done"
    /\ store' = [store EXCEPT ![s_user] = clock]
    /\ cache' = [cache EXCEPT ![s_user] = clock]
    /\ UNCHANGED <<clock, pc, user, data, asked, seen, now, sent, delivered,
                   calls, last, failed, overlapped>>
    /\ UNCHANGED <<s_op, s_user, s_out, s_before, s_load, anVars, botVars>>

\* set_last_warning raises: the exception leaves record_warning.
stats_set_last_warning_fails ==
    /\ s_pc = "recording"
    /\ s_pc' = "done"
    /\ s_out' = Out("raise", 0, <<>>)
    /\ UNCHANGED <<wmVars, s_op, s_user, s_before, s_load, anVars, botVars>>

\* _cmd_warnings for a message of the administrator or of somebody else.
cmd_warnings(from_admin) ==
    /\ s_pc \in {"idle", "done"}
    /\ s_pc' = "done"
    /\ s_op' = "cmd_warnings"
    /\ s_user' = NoUser
    /\ s_load' = "no"
    /\ s_before' = [cache |-> cache, store |-> store]
    /\ s_out' = IF ~from_admin THEN Out("none", 0, <<>>)
                ELSE IF cache_is_empty(last_warning) THEN Out("no_warnings", 0, <<>>)
                ELSE LET order == sorted_reverse(items(last_warning, NumUsers), last_warning)
                     IN  Out("lines", 0,
                             [i \in 1..Len(order) |->
                                 cmd_warnings_line(order[i], last_warning[order[i]], b_clock)])
    /\ UNCHANGED <<wmVars, anVars, botVars>>

\* The inputs: a store whose timestamps are not in the future, a cache that is
\* empty or holds rows of the store, and for _cmd_warnings a clock and warnings
\* that are around one cooldown old.
BotElapsed ==
    {0, 1, bot_cooldown_seconds * TicksPerSecond - 1,
     bot_cooldown_seconds * TicksPerSecond, bot_cooldown_seconds * TicksPerSecond + 1}

InitStats ==
    /\ clock \in 1..MaxTime
    /\ store \in [Users -> 0..clock]
    /\ cache \in {c \in [Users -> 0..clock] : \A u \in Users : c[u] \in {Absent, store[u]}}
    /\ pc = [t \in Tasks |-> "off"]
    /\ user = [t \in Tasks |-> NoUser]
    /\ data = [t \in Tasks |-> EmptyTable]
    /\ asked = [t \in Tasks |-> 0]
    /\ seen = [t \in Tasks |-> 0]
    /\ now = [t \in Tasks |-> 0]
    /\ sent = [t \in Tasks |-> 0]
    /\ delivered = [u \in Users |-> <<>>]
    /\ calls = <<>>
    /\ last = NoCall
    /\ failed = FALSE
    /\ overlapped = FALSE
    /\ AnFrozen
    /\ s_pc = "idle"
    /\ s_op = "none"
    /\ s_user = NoUser
    /\ s_out = Out("none", 0, <<>>)
    /\ s_before = [cache |-> cache, store |-> store]
    /\ s_load = "no"
    /\ b_clock = bot_cooldown_seconds * TicksPerSecond + 2
    /\ last_warning \in [Users -> {Absent} \cup {b_clock - e : e \in BotElapsed}]
    /\ env = <<>>
    /\ boot = "off"
    /\ exit_status = 0
    /\ admin_cache = {}
    /\ admin_cache_time = 0
    /\ h_pc = <<>> /\ h_msg = <<>> /\ h_warn = <<>> /\ h_now = <<>>
    /\ d_pc = <<>> /\ d_ids = <<>> /\ d_due = <<>> /\ d_i = <<>>
    /\ warnings = <<>> /\ send_attempts = <<>> /\ notified = <<>>
    /\ del_attempts = <<>> /\ deleted = {}

NextStats ==
    \/ \E u \in Users : can_warn_call(u)
    \/ \E u \in Users : get_time_until_next_warning_call(u)
    \/ format_stats
    \/ stats_load_cache
    \/ stats_load_cache_fails
    \/ \E u \in Users : record_warning_call(u)
    \/ stats_set_last_warning
    \/ stats_set_last_warning_fails
    \/ \E from_admin \in BOOLEAN : cmd_warnings(from_admin)

SpecStats == InitStats /\ [][NextStats]_vars

(***************************************************************************)
(* Properties of Part III.                                                 *)
(***************************************************************************)
StatsRan(op) == s_pc = "done" /\ s_op = op

\* The lines name every key of table c once, most recent timestamp first.
ListsMostRecentFirst(lines, c) ==
    /\ {lines[i].user_id : i \in DOMAIN lines} = {u \in Users : c[u] # Absent}
    /\ Len(lines) = Cardinality({u \in Users : c[u] # Absent})
    /\ \A i, j \in DOMAIN lines : i < j => c[lines[i].user_id] >= c[lines[j].user_id]

\* C17: format_stats (and _cmd_warnings, which formats the same statistics in
\* bot.py) lists the users of the table most recent warning first, marks a user
\* available exactly when cooldown - (now - timestamp) <= 0, and changes
\* neither the store nor a timestamp of the cache: the cache differs afterwards
\* only when it was empty and has been loaded from the store.
C17_StatsSortedAndMarked ==
    /\ (StatsRan("format_stats") /\ s_out.kind = "lines") =>
          /\ ListsMostRecentFirst(s_out.lines, cache)
          /\ \A i \in DOMAIN s_out.lines :
                s_out.lines[i].available <=>
                    (cooldown_seconds - (clock - cache[s_out.lines[i].user_id]) <= 0)
    /\ StatsRan("format_stats") =>
          /\ store = s_before.store
          /\ cache # s_before.cache =>
                (cache_is_empty(s_before.cache) /\ s_load = "read" /\ cache = store)
          /\ (s_out.kind = "no_warnings") <=> cache_is_empty(cache)
    /\ (StatsRan("cmd_warnings") /\ s_out.kind = "lines") =>
          /\ ListsMostRecentFirst(s_out.lines, last_warning)
          /\ \A i \in DOMAIN s_out.lines :
                s_out.lines[i].available <=>
                    (bot_cooldown_seconds * TicksPerSecond
                        - (b_clock - last_warning[s_out.lines[i].user_id]) <= 0)

\* C18: when the snapshot read fails, can_warn, get_time_until_next_warning
\* and format_stats return normally, cache and store are as they were, and
\* can_warn says true for a user with no entry in the cache.
C18_ReadFailsOpen ==
    (s_pc = "done" /\ s_load = "failed") =>
        /\ s_out.kind # "raise"
        /\ cache = s_before.cache
        /\ store = s_before.store
        /\ (s_op = "can_warn" /\ cache[s_user] = Absent) => s_out.value = TRUE
        /\ (s_op = "get_time_until_next_warning" /\ cache[s_user] = Absent) => s_out.value = 0
        /\ s_op = "format_stats" => s_out.kind \in {"no_warnings", "lines"}

C18_Witness ==
    /\ StatsRan("can_warn") /\ s_load = "failed"
    /\ store[s_user] # Absent
    /\ clock - store[s_user] < cooldown_seconds
    /\ s_out.value = TRUE
    /\ cache_is_empty(cache)

\* C28: record_warning(u) called on an empty mirror leaves a mirror that holds
\* every record of the store, and a can_warn(v) that follows it returns false
\* for a user v whose stored timestamp is inside the cooldown window.
C28_RecordKeepsOtherUsers ==
    [][ /\ ( /\ s_pc = "recording" /\ s_pc' = "done" /\ s_out'.kind # "raise"
             /\ cache_is_empty(cache) )
           => \A v \in Users : store'[v] # Absent => cache'[v] = store'[v]
        /\ ( /\ StatsRan("record_warning") /\ s_out.kind # "raise"
             /\ cache_is_empty(s_before.cache)
             /\ s_op' = "can_warn" /\ s_pc' = "done"
             /\ store[s_user'] # Absent
             /\ clock - store[s_user'] < cooldown_seconds )
           => s_out'.value = FALSE
      ]_vars

(***************************************************************************)
(* Part IV.  src/bot.py: main, BotConfig.from_env, and DiscussionBot       *)
(* handling the messages of the group.  Group message k has message_id k;  *)
(* the i-th warning the transport delivers has message_id MaxMsgs + i.     *)
(***************************************************************************)
\* How many group messages arrive.
MaxMsgs == 2

\* BotConfig.auto_delete_delay and ADMIN_CACHE_TTL_MINUTES.
auto_delete_delay == 10
ADMIN_CACHE_TTL_MINUTES == 600

Msgs == 1..MaxMsgs
MessageIds == 1..(2 * MaxMsgs)

\* The administrators get_chat_administrators reports.
Admins == {NumUsers}

\* os.getenv of a variable: not set, set to "", set to text that int() rejects,
\* set to an integer.
required_vars == {"BOT_TOKEN", "ADMIN_ID", "GROUP_ID", "CHANNEL_ID"}
id_vars == {"ADMIN_ID", "GROUP_ID", "CHANNEL_ID"}
EnvValues(var) ==
    IF var = "BOT_TOKEN" THEN {"unset", "empty", "text"}
    ELSE IF var = "AUTO_DELETE_DELAY" THEN {"unset", "text"}
    ELSE {"unset", "empty", "text", "int"}
Environments ==
    {e \in [required_vars \cup {"AUTO_DELETE_DELAY"} -> {"unset", "empty", "text", "int"}] :
        \A var \in DOMAIN e : e[var] \in EnvValues(var)}

\* `missing` of from_env: the required variables whose value is falsy.
missing(e) == {var \in required_vars : e[var] \in {"unset", "empty"}}

\* What _handle_group_message reads of a message; in_thread is what
\* is_in_discussion_thread returns for it.
GroupMessages ==
    [from_user : Users \cup {NoUser}, command : BOOLEAN, service : BOOLEAN,
     in_thread : BOOLEAN]

WarningId(i) == MaxMsgs + i

\* bot.py's can_warn on datetimes.
bot_can_warn(ts, t_now) ==
    IF ts = Absent THEN TRUE
    ELSE (t_now - ts) >= bot_cooldown_seconds * TicksPerSecond

\* _get_admin_user_ids_cached serves the cache.
admin_cache_fresh ==
    /\ admin_cache_time # 0
    /\ (b_clock - admin_cache_time) < ADMIN_CACHE_TTL_MINUTES * 60 * TicksPerSecond

cfgVars == <<env, boot, exit_status>>
delVars == <<d_pc, d_ids, d_due, d_i, del_attempts, deleted>>

\* from_env with the integer check of the ids left out.
from_env_ids_unchecked ==
    /\ boot = "start"
    /\ IF missing(env) # {}
       THEN boot' = "exited" /\ exit_status' = 1
       ELSE boot' = "configured" /\ exit_status' = 0
    /\ UNCHANGED <<env, wmVars, anVars, stVars>>
    /\ UNCHANGED <<b_clock, last_warning, admin_cache, admin_cache_time, h_pc, h_msg,
                   h_warn, h_now, warnings, send_attempts, notified, delVars>>

\* main calls BotConfig.from_env: a ValueError (a required variable missing,
\* an id that int() rejects) is logged and main calls sys.exit(1).  An
\* AUTO_DELETE_DELAY that int() rejects becomes 10.
from_env ==
    /\ boot = "start"
    /\ IF missing(env) # {} \/ \E var \in id_vars : env[var] = "text"
       THEN boot' = "exited" /\ exit_status' = 1
       ELSE boot' = "configured" /\ exit_status' = 0
    /\ UNCHANGED <<env, wmVars, anVars, stVars>>
    /\ UNCHANGED <<b_clock, last_warning, admin_cache, admin_cache_time, h_pc, h_msg,
                   h_warn, h_now, warnings, send_attempts, notified, delVars>>

\* DiscussionBot(config) and bot.start(): the dispatcher polls.
DiscussionBot_init ==
    /\ boot = "configured"
    /\ boot' = "polling"
    /\ UNCHANGED <<env, exit_status, wmVars, anVars, stVars>>
    /\ UNCHANGED <<b_clock, last_warning, admin_cache, admin_cache_time, h_pc, h_msg,
                   h_warn, h_now, warnings, send_attempts, notified, delVars>>

\* DiscussionBot(config) raises (Bot rejects the token): sys.exit(1).
DiscussionBot_init_fails ==
    /\ boot = "configured"
    /\ boot' = "exited"
    /\ exit_status' = 1
    /\ UNCHANGED <<env, wmVars, anVars, stVars>>
    /\ UNCHANGED <<b_clock, last_warning, admin_cache, admin_cache_time, h_pc, h_msg,
                   h_warn, h_now, warnings, send_attempts, notified, delVars>>

\* The handler of message k returns or raises.
HandlerEnds(k, how) ==
    /\ h_pc' = [h_pc EXCEPT ![k] = how]
    /\ UNCHANGED <<h_warn, send_attempts, notified>>

\* _handle_group_message without its test for commands.
AfterAdmins_commands_pass(k, m, admin_ids) ==
    IF m.from_user # NoUser /\ m.from_user \in admin_ids THEN HandlerEnds(k, "ret_admin")
    ELSE IF m.service THEN HandlerEnds(k, "ret_service")
    ELSE IF m.from_user = NoUser THEN HandlerEnds(k, "raised")
    ELSE IF m.in_thread THEN HandlerEnds(k, "ret_in_thread")
    ELSE IF bot_can_warn(last_warning[m.from_user], b_clock)
    THEN /\ h_pc' = [h_pc EXCEPT ![k] = "sending"]
         /\ send_attempts' = [send_attempts EXCEPT ![k] = @ + 1]
         /\ UNCHANGED <<h_warn, notified>>
    ELSE /\ h_pc' = [h_pc EXCEPT ![k] = "notifying"]
         /\ notified' = [notified EXCEPT ![k] = @ + 1]
         /\ UNCHANGED <<h_warn, send_attempts>>

\* _handle_group_message from `if message.from_user.id in admin_ids` up to its
\* next await: the send of send_warning, or the send of the notifier when the
\* cooldown suppresses the warning.
AfterAdmins(k, m, admin_ids) ==
    IF m.from_user # NoUser /\ m.from_user \in admin_ids THEN HandlerEnds(k, "ret_admin")
    ELSE IF m.command THEN HandlerEnds(k, "ret_command")
    ELSE IF m.service THEN HandlerEnds(k, "ret_service")
    ELSE IF m.from_user = NoUser THEN HandlerEnds(k, "raised")
    ELSE IF m.in_thread THEN HandlerEnds(k, "ret_in_thread")
    ELSE IF bot_can_warn(last_warning[m.from_user], b_clock)
    THEN /\ h_pc' = [h_pc EXCEPT ![k] = "sending"]
         /\ send_attempts' = [send_attempts EXCEPT ![k] = @ + 1]
         /\ UNCHANGED <<h_warn, notified>>
    ELSE /\ h_pc' = [h_pc EXCEPT ![k] = "notifying"]
         /\ notified' = [notified EXCEPT ![k] = @ + 1]
         /\ UNCHANGED <<h_warn, send_attempts>>

\* The dispatcher calls _handle_group_message for the next message of the group.
handle_group_message(k, m) ==
    /\ boot = "polling"
    /\ h_pc[k] = "none"
    /\ \A j \in Msgs : j < k => h_pc[j] # "none"
    /\ h_msg' = [h_msg EXCEPT ![k] = m]
    /\ h_now' = [h_now EXCEPT ![k] = b_clock]
    /\ IF m.from_user # NoUser /\ ~admin_cache_fresh
       THEN /\ h_pc' = [h_pc EXCEPT ![k] = "admins"]
            /\ UNCHANGED <<h_warn, send_attempts, notified>>
       ELSE AfterAdmins(k, m, admin_cache)
    /\ UNCHANGED <<cfgVars, wmVars, anVars, stVars>>
    /\ UNCHANGED <<b_clock, last_warning, admin_cache, admin_cache_time, warnings, delVars>>

\* get_chat_administrators returns: the cache and its time are set.
get_chat_administrators(k) ==
    /\ h_pc[k] = "admins"
    /\ admin_cache' = Admins
    /\ admin_cache_time' = h_now[k]
    /\ AfterAdmins(k, h_msg[k], Admins)
    /\ UNCHANGED <<cfgVars, wmVars, anVars, stVars>>
    /\ UNCHANGED <<b_clock, last_warning, h_msg, h_now, warnings, delVars>>

\* _get_admin_user_ids_cached setting the fetch time before the fetch, so
\* that it is advanced by a fetch that fails.
get_chat_administrators_fails_time_set(k) ==
    /\ h_pc[k] = "admins"
    /\ admin_cache_time' = h_now[k]
    /\ AfterAdmins(k, h_msg[k], admin_cache)
    /\ UNCHANGED <<cfgVars, wmVars, anVars, stVars>>
    /\ UNCHANGED <<b_clock, last_warning, admin_cache, h_msg, h_now, warnings, delVars>>

\* get_chat_administrators raises: the cache is served as it is.
get_chat_administrators_fails(k) ==
    /\ h_pc[k] = "admins"
    /\ AfterAdmins(k, h_msg[k], admin_cache)
    /\ UNCHANGED <<cfgVars, wmVars, anVars, stVars>>
    /\ UNCHANGED <<b_clock, last_warning, admin_cache, admin_cache_time, h_msg, h_now,
                   warnings, delVars>>

\* bot.send_message of send_warning returns: record_warning, the id is
\* returned, and the handler awaits the notifier's send.
bot_send_message(k) ==
    /\ h_pc[k] = "sending"
    /\ warnings' = Append(warnings, k)
    /\ last_warning' = [last_warning EXCEPT ![h_msg[k].from_user] = b_clock]
    /\ h_warn' = [h_warn EXCEPT ![k] = WarningId(Len(warnings) + 1)]
    /\ h_pc' = [h_pc EXCEPT ![k] = "notifying"]
    /\ notified' = [notified EXCEPT ![k] = @ + 1]
    /\ UNCHANGED <<cfgVars, wmVars, anVars, stVars>>
    /\ UNCHANGED <<b_clock, admin_cache, admin_cache_time, h_msg, h_now, send_attempts,
                   delVars>>

\* bot.send_message of send_warning raises: send_warning returns None.
bot_send_message_fails(k) ==
    /\ h_pc[k] = "sending"
    /\ h_pc' = [h_pc EXCEPT ![k] = "notifying"]
    /\ notified' = [notified EXCEPT ![k] = @ + 1]
    /\ UNCHANGED <<cfgVars, wmVars, anVars, stVars>>
    /\ UNCHANGED <<b_clock, last_warning, admin_cache, admin_cache_time, h_msg, h_warn,
                   h_now, warnings, send_attempts, delVars>>

\* The notifier's send returns or raises (it is caught either way): to_delete
\* is built and the deletion task is created, which runs up to its sleep.
notify_off_topic_message(k) ==
    /\ h_pc[k] = "notifying"
    /\ h_pc' = [h_pc EXCEPT ![k] = "scheduled"]
    /\ d_pc' = [d_pc EXCEPT ![k] = "sleeping"]
    /\ d_ids' = [d_ids EXCEPT ![k] = IF h_warn[k] # 0 THEN <<k, h_warn[k]>> ELSE <<k>>]
    /\ d_due' = [d_due EXCEPT ![k] = b_clock + auto_delete_delay * TicksPerSecond]
    /\ UNCHANGED <<cfgVars, wmVars, anVars, stVars>>
    /\ UNCHANGED <<b_clock, last_warning, admin_cache, admin_cache_time, h_msg, h_warn,
                   h_now, warnings, send_attempts, notified, d_i, del_attempts, deleted>>

\* asyncio.sleep(delay) ends: the loop awaits the delete of the first id.
schedule_deletion(k) ==
    /\ d_pc[k] = "sleeping"
    /\ b_clock >= d_due[k]
    /\ d_pc' = [d_pc EXCEPT ![k] = "deleting"]
    /\ d_i' = [d_i EXCEPT ![k] = 1]
    /\ del_attempts' = [del_attempts EXCEPT ![d_ids[k][1]] = @ + 1]
    /\ UNCHANGED <<cfgVars, wmVars, anVars, stVars>>
    /\ UNCHANGED <<b_clock, last_warning, admin_cache, admin_cache_time, h_pc, h_msg,
                   h_warn, h_now, warnings, send_attempts, notified, d_ids, d_due, deleted>>

\* The loop of _schedule_deletion goes on to the next id, or ends.
NextDelete(k) ==
    IF d_i[k] < Len(d_ids[k])
    THEN /\ d_i' = [d_i EXCEPT ![k] = @ + 1]
         /\ del_attempts' = [del_attempts EXCEPT ![d_ids[k][d_i[k] + 1]] = @ + 1]
         /\ UNCHANGED d_pc
    ELSE /\ d_pc' = [d_pc EXCEPT ![k] = "done"]
         /\ UNCHANGED <<d_i, del_attempts>>

\* bot.delete_message returns.
delete_message(k) ==
    /\ d_pc[k] = "deleting"
    /\ deleted' = deleted \cup {d_ids[k][d_i[k]]}
    /\ NextDelete(k)
    /\ UNCHANGED <<cfgVars, wmVars, anVars, stVars>>
    /\ UNCHANGED <<b_clock, last_warning, admin_cache, admin_cache_time, h_pc, h_msg,
                   h_warn, h_now, warnings, send_attempts, notified, d_ids, d_due>>

\* _schedule_deletion with a second attempt for an id whose delete failed.
delete_message_fails_retried(k) ==
    /\ d_pc[k] = "deleting"
    /\ IF del_attempts[d_ids[k][d_i[k]]] < 2
       THEN /\ del_attempts' = [del_attempts EXCEPT ![d_ids[k][d_i[k]]] = @ + 1]
            /\ UNCHANGED <<d_pc, d_i>>
       ELSE NextDelete(k)
    /\ UNCHANGED <<cfgVars, wmVars, anVars, stVars>>
    /\ UNCHANGED <<b_clock, last_warning, admin_cache, admin_cache_time, h_pc, h_msg,
                   h_warn, h_now, warnings, send_attempts, notified, d_ids, d_due, deleted>>

\* _schedule_deletion without the try around the delete: the exception ends
\* the task.
delete_message_fails_uncaught(k) ==
    /\ d_pc[k] = "deleting"
    /\ d_pc' = [d_pc EXCEPT ![k] = "done"]
    /\ UNCHANGED <<d_i, del_attempts>>
    /\ UNCHANGED <<cfgVars, wmVars, anVars, stVars>>
    /\ UNCHANGED <<b_clock, last_warning, admin_cache, admin_cache_time, h_pc, h_msg,
                   h_warn, h_now, warnings, send_attempts, notified, d_ids, d_due, deleted>>

\* bot.delete_message raises: logged, the loop goes on.
delete_message_fails(k) ==
    /\ d_pc[k] = "deleting"
    /\ NextDelete(k)
    /\ UNCHANGED <<cfgVars, wmVars, anVars, stVars>>
    /\ UNCHANGED <<b_clock, last_warning, admin_cache, admin_cache_time, h_pc, h_msg,
                   h_warn, h_now, warnings, send_attempts, notified, d_ids, d_due, deleted>>

\* The instants at which something becomes possible: a sleep ends, a cooldown
\* window closes, the administrator cache expires.
Deadlines ==
    {d_due[k] : k \in {j \in Msgs : d_pc[j] = "sleeping"}}
    \cup {last_warning[u] + bot_cooldown_seconds * TicksPerSecond :
              u \in {v \in Users : last_warning[v] # Absent}}
    \cup {admin_cache_time + ADMIN_CACHE_TTL_MINUTES * 60 * TicksPerSecond :
              x \in {y \in {1} : admin_cache_time # 0}}

\* Time passes, up to one of these instants.
BotTick ==
    /\ \E d \in Deadlines : d > b_clock /\ b_clock' = d
    /\ UNCHANGED <<cfgVars, wmVars, anVars, stVars>>
    /\ UNCHANGED <<last_warning, admin_cache, admin_cache_time, h_pc, h_msg, h_warn,
                   h_now, warnings, send_attempts, notified, delVars>>

InitBot ==
    /\ WmFrozen /\ AnFrozen /\ StFrozen
    /\ b_clock = 1
    /\ last_warning = EmptyTable
    /\ env \in Environments
    /\ boot = "start"
    /\ exit_status = 0
    /\ admin_cache = {}
    /\ admin_cache_time = 0
    /\ h_pc = [k \in Msgs |-> "none"]
    /\ h_msg = [k \in Msgs |-> [from_user |-> NoUser, command |-> FALSE,
                                service |-> FALSE, in_thread |-> FALSE]]
    /\ h_warn = [k \in Msgs |-> 0]
    /\ h_now = [k \in Msgs |-> 0]
    /\ d_pc = [k \in Msgs |-> "none"]
    /\ d_ids = [k \in Msgs |-> <<>>]
    /\ d_due = [k \in Msgs |-> 0]
    /\ d_i = [k \in Msgs |-> 0]
    /\ warnings = <<>>
    /\ send_attempts = [k \in Msgs |-> 0]
    /\ notified = [k \in Msgs |-> 0]
    /\ del_attempts = [i \in MessageIds |-> 0]
    /\ deleted = {}

NextBot ==
    \/ from_env
    \/ DiscussionBot_init
    \/ DiscussionBot_init_fails
    \/ \E k \in Msgs, m \in GroupMessages : handle_group_message(k, m)
    \/ \E k \in Msgs : get_chat_administrators(k)
    \/ \E k \in Msgs : get_chat_administrators_fails(k)
    \/ \E k \in Msgs : bot_send_message(k)
    \/ \E k \in Msgs : bot_send_message_fails(k)
    \/ \E k \in Msgs : notify_off_topic_message(k)
    \/ \E k \in Msgs : schedule_deletion(k)
    \/ \E k \in Msgs : delete_message(k)
    \/ \E k \in Msgs : delete_message_fails(k)
    \/ BotTick

SpecBot == InitBot /\ [][NextBot]_vars

\* The event loop runs every coroutine that can go on, every awaited call of
\* the Bot API returns or raises, and time passes.
FairBot ==
    /\ WF_vars(BotTick)
    /\ \A k \in Msgs :
        /\ WF_vars(get_chat_administrators(k) \/ get_chat_administrators_fails(k))
        /\ WF_vars(bot_send_message(k) \/ bot_send_message_fails(k))
        /\ WF_vars(notify_off_topic_message(k))
        /\ WF_vars(schedule_deletion(k))
        /\ WF_vars(delete_message(k) \/ delete_message_fails(k))

SpecBotFair == SpecBot /\ FairBot

(***************************************************************************)
(* Properties of Part IV.                                                  *)
(***************************************************************************)
\* The ids of the warnings the transport delivered in reply to message k,
\* among the first n warnings.
RECURSIVE WarningsFor(_, _)
WarningsFor(k, n) ==
    IF n = 0 THEN <<>>
    ELSE IF warnings[n] = k THEN Append(WarningsFor(k, n - 1), WarningId(n))
         ELSE WarningsFor(k, n - 1)

HandlerOver(k) ==
    h_pc[k] \in {"ret_admin", "ret_command", "ret_service", "ret_in_thread",
                 "scheduled", "raised"}

\* Message k is one the bot moderates: not of an administrator, not a command,
\* not a service message, and not in a discussion thread.
OffTopic(k) ==
    /\ HandlerOver(k)
    /\ h_pc[k] # "ret_admin"
    /\ ~h_msg[k].command /\ ~h_msg[k].service /\ ~h_msg[k].in_thread

\* C16: a deletion task exists only once send_warning has returned and the
\* handler has gone on to schedule it; its list is the id of the triggering
\* message followed by the id of every warning delivered in reply to it (the
\* triggering id alone when none was); and every message that is not in a
\* discussion thread has its deletion task once its handler is over, also
\* when no warning was delivered: cooldown, absent sender, failed send.
C16_DeletionAfterWarning ==
    \A k \in Msgs :
        /\ d_pc[k] # "none" =>
              /\ h_pc[k] = "scheduled"
              /\ d_ids[k] = <<k>> \o WarningsFor(k, Len(warnings))
        /\ OffTopic(k) => d_pc[k] # "none"

\* C19: handling one group message issues at most one send of a warning, and
\* no message id gets more than one delete attempt.
C19_NoRetry ==
    /\ \A k \in Msgs : send_attempts[k] <= 1
    /\ \A i \in MessageIds : del_attempts[i] <= 1
    /\ Len(warnings) <= MaxMsgs

C19_Witness ==
    /\ h_pc[1] = "scheduled" /\ send_attempts[1] = 1 /\ WarningsFor(1, Len(warnings)) = <<>>
    /\ d_pc[1] = "done" /\ del_attempts[1] = 1 /\ 1 \notin deleted
    /\ h_pc[2] = "scheduled" /\ send_attempts[2] = 1 /\ h_warn[2] # 0
    /\ d_pc[2] = "done" /\ del_attempts[h_warn[2]] = 1 /\ h_warn[2] \notin deleted

\* Nothing was done about message k: no warning was sent or attempted, the
\* administrator was not notified, no deletion task exists and no delete of
\* the message was attempted.
Untouched(k) ==
    /\ send_attempts[k] = 0
    /\ notified[k] = 0
    /\ h_warn[k] = 0
    /\ WarningsFor(k, Len(warnings)) = <<>>
    /\ d_pc[k] = "none"
    /\ del_attempts[k] = 0

\* C23: a group message that is a command, a service message or in a
\* discussion thread, or whose handler found the sender among the
\* administrators, never gets a warning, an admin notification or a deletion;
\* and a handler that gets past the administrator check with a sender who is
\* in the administrator set it was given returns at once.
C23_ExemptNeverModerated ==
    /\ [](\A k \in Msgs :
            ( /\ h_pc[k] # "none"
              /\ \/ h_pc[k] = "ret_admin"
                 \/ h_msg[k].command \/ h_msg[k].service \/ h_msg[k].in_thread )
            => Untouched(k))
    /\ [][\A k \in Msgs :
            ( /\ h_pc[k] \in {"none", "admins"}
              /\ h_pc'[k] \notin {"none", "admins"}
              /\ h_msg'[k].from_user \in admin_cache' )
            => h_pc'[k] = "ret_admin"]_vars

C23_Witness ==
    /\ h_pc[1] = "ret_admin" /\ Untouched(1)
    /\ h_pc[2] = "ret_in_thread" /\ h_msg[2].from_user \notin Admins /\ Untouched(2)
    /\ admin_cache = Admins

\* The ids of the list of task k, as a set.
Ids(k) == {d_ids[k][i] : i \in DOMAIN d_ids[k]}

\* C25: a delete that fails does not end the deletion task: the task goes on
\* to the next id of its list (or ends, after the last one), so a task that
\* is over has attempted every id of its list, and the message whose delete
\* failed is not deleted.
C25_FailedDeleteGoesOn ==
    /\ [](\A k \in Msgs :
            /\ d_pc[k] \in {"none", "sleeping", "deleting", "done"}
            /\ d_pc[k] = "done" => \A i \in Ids(k) : del_attempts[i] = 1
            /\ d_pc[k] = "deleting" =>
                  \A j \in 1..d_i[k] : del_attempts[d_ids[k][j]] = 1)
    /\ [][\A k \in Msgs :
            ( /\ d_pc[k] = "deleting"
              /\ d_i'[k] # d_i[k] \/ d_pc'[k] # d_pc[k]
              /\ d_ids[k][d_i[k]] \notin deleted' )
            => /\ deleted' = deleted
               /\ IF d_i[k] < Len(d_ids[k])
                  THEN /\ d_pc'[k] = "deleting"
                       /\ d_i'[k] = d_i[k] + 1
                       /\ del_attempts'[d_ids[k][d_i'[k]]] = 1
                  ELSE d_pc'[k] = "done"]_vars

C25_Witness ==
    \E k \in Msgs :
        /\ d_pc[k] = "done"
        /\ Len(d_ids[k]) = 2
        /\ d_ids[k][1] \notin deleted
        /\ del_attempts[d_ids[k][1]] = 1
        /\ d_ids[k][2] \in deleted

\* C26: every group message that is not from an administrator, not a command,
\* not a service message and not in a discussion thread gets a delete attempt
\* in the end, with or without a sender and whatever became of the warning
\* and of the notification; and no delete is attempted before
\* auto_delete_delay has passed since the task was created.
C26_EveryOffTopicDeleted ==
    /\ [](\A k \in Msgs :
            del_attempts[k] >= 1 =>
                /\ d_pc[k] \in {"deleting", "done"}
                /\ b_clock >= d_due[k]
                /\ d_due[k] >= h_now[k] + auto_delete_delay * TicksPerSecond)
    /\ \A k \in Msgs : OffTopic(k) ~> (del_attempts[k] >= 1)

\* C27: a call of _get_admin_user_ids_cached (one per message that has a
\* sender) fetches exactly when the fetch time is unset or the TTL has passed
\* since it, and serves the cached set otherwise; a fetch that fails leaves
\* the set and the fetch time as they are and the cached set is what the
\* handler gets; the set and the fetch time change only when a fetch
\* succeeds, both at once, the time becoming the instant that call began.
C27_AdminCache ==
    [][ /\ \A k \in Msgs :
            (h_pc[k] = "none" /\ h_pc'[k] # "none" /\ h_msg'[k].from_user # NoUser) =>
                /\ admin_cache_fresh <=> h_pc'[k] # "admins"
                /\ admin_cache_fresh =>
                      (h_pc'[k] = "ret_admin" <=> h_msg'[k].from_user \in admin_cache)
        /\ \A k \in Msgs :
            (h_pc[k] = "admins" /\ h_pc'[k] # "admins") =>
                /\ \/ admin_cache' = Admins /\ admin_cache_time' = h_now[k]
                   \/ admin_cache' = admin_cache /\ admin_cache_time' = admin_cache_time
                /\ h_pc'[k] = "ret_admin" <=> h_msg[k].from_user \in admin_cache'
        /\ (admin_cache_time' # admin_cache_time \/ admin_cache' # admin_cache) =>
              \E k \in Msgs :
                  /\ h_pc[k] = "admins" /\ h_pc'[k] # "admins"
                  /\ admin_cache' = Admins
                  /\ admin_cache_time' = h_now[k]
      ]_vars

\* The first fetch succeeded at instant 1; the second call came after the TTL,
\* its fetch failed, it served the set of the first and left the fetch time.
C27_Witness ==
    /\ admin_cache = Admins
    /\ admin_cache_time = 1
    /\ h_now[2] >= 1 + ADMIN_CACHE_TTL_MINUTES * 60 * TicksPerSecond
    /\ h_pc[2] = "ret_admin"

\* A required setting is missing, or an id is not an integer.
ConfigError ==
    \/ \E var \in required_vars : env[var] \in {"unset", "empty"}
    \/ \E var \in id_vars : env[var] # "int"

\* C20: with such a setting main never gets past from_env: the bot is not
\* constructed, no message is handled, and when main has ended it has called
\* sys.exit with a non-zero status.
C20_ConfigErrorIsFatal ==
    ConfigError =>
        /\ boot \in {"start", "exited"}
        /\ boot = "exited" => exit_status # 0
        /\ \A k \in Msgs : h_pc[k] = "none"

C20_Witness ==
    /\ boot = "exited" /\ exit_status = 1
    /\ missing(env) = {}
    /\ env["ADMIN_ID"] = "text"
    /\ env["GROUP_ID"] = "int" /\ env["CHANNEL_ID"] = "int"

====
